---- MODULE Spec2Model ----
(***************************************************************************)
(* Model of the Ghost storage adapter for Google Cloud Storage             *)
(* (src/src/index.ts, class GStore).                                       *)
(*                                                                         *)
(* Strings and buffers are sequences of one-character strings, so that     *)
(* concatenation, replacement and formatting are computed.  JavaScript     *)
(* values are records [k, s, n, b]: k is the type tag, and s, n, b hold    *)
(* the payload of a string/buffer, a number and a boolean.                 *)
(***************************************************************************)
EXTENDS Integers, Sequences, FiniteSets, TLC

VARIABLES
    platform,   \* the host's path flavour, fixed for the process: "posix" or "win32"
    ctor,       \* "none" before `new GStore(config)`, then "ready" or "threw"
    arg,        \* the configuration object handed to the constructor
    thrown,     \* what the constructor threw
    gcsCalls,   \* the storage-client calls the constructor made, in order
    config,     \* this.config
    bucket,     \* this.bucket: the handle gcs.bucket(name) returned
    assetDomain,               \* this.assetDomain
    insecure,                  \* this.insecure
    maxAge,                    \* this.maxAge
    uniformBucketLevelAccess,  \* this.uniformBucketLevelAccess
    ret,        \* what the last getBaseUrl() / getConfig() call returned
    mw,         \* the handler serve() returned: its invocations and what they did
    calls       \* the asynchronous calls (save, exists, read, delete), one per slot

fields == <<config, bucket, assetDomain, insecure, maxAge, uniformBucketLevelAccess>>
vars == <<platform, ctor, arg, thrown, gcsCalls, config, bucket, assetDomain,
          insecure, maxAge, uniformBucketLevelAccess, ret, mw, calls>>

\* ---------------------------------------------------------------- bounds

\* Slots for calls; Spec's caller awaits each call and uses the first slot only.
MaxCalls == 2
\* Events one read stream emits (data, end and error together).
MaxEvents == 3
\* Invocations of the handler serve() returns.
MaxServes == 2
\* Events one read stream emits when calls run concurrently.
ConcEvents == 2

\* ----------------------------------------------------- JavaScript values

Undefined == [k |-> "undefined", s |-> <<>>, n |-> 0, b |-> FALSE]
Null      == [k |-> "null",      s |-> <<>>, n |-> 0, b |-> FALSE]
Str(x)    == [k |-> "string",    s |-> x,    n |-> 0, b |-> FALSE]
Num(x)    == [k |-> "number",    s |-> <<>>, n |-> x, b |-> FALSE]
Bool(x)   == [k |-> "boolean",   s |-> <<>>, n |-> 0, b |-> x]
Buf(x)    == [k |-> "buffer",    s |-> x,    n |-> 0, b |-> FALSE]
Err(x)    == [k |-> "error",     s |-> x,    n |-> 0, b |-> FALSE]

\* ToBoolean: what `!v`, `v || d` and `if (v)` test.  Objects (buffers,
\* errors) are always truthy, an empty buffer included.
Truthy(v) ==
    CASE v.k = "undefined" -> FALSE
      [] v.k = "null"      -> FALSE
      [] v.k = "boolean"   -> v.b
      [] v.k = "number"    -> v.n # 0
      [] v.k = "string"    -> v.s # <<>>
      [] OTHER             -> TRUE

\* `v ?? d`: d only when v is null or undefined.
NullishOr(v, d) == IF v.k \in {"undefined", "null"} THEN d ELSE v

\* `v || d`: d whenever v is falsy.
FalsyOr(v, d) == IF Truthy(v) THEN v ELSE d

Digit(d) ==
    CASE d = 0 -> "0" [] d = 1 -> "1" [] d = 2 -> "2" [] d = 3 -> "3"
      [] d = 4 -> "4" [] d = 5 -> "5" [] d = 6 -> "6" [] d = 7 -> "7"
      [] d = 8 -> "8" [] d = 9 -> "9"

\* Number-to-string for a non-negative integer: its decimal digits.
RECURSIVE NatToString(_)
NatToString(x) ==
    IF x < 10 THEN <<Digit(x)>> ELSE NatToString(x \div 10) \o <<Digit(x % 10)>>

\* What a template literal `${v}` puts in the string.
TemplateString(v) ==
    CASE v.k = "string"    -> v.s
      [] v.k = "number"    -> NatToString(v.n)
      [] v.k = "boolean"   -> IF v.b THEN <<"t", "r", "u", "e">>
                                     ELSE <<"f", "a", "l", "s", "e">>
      [] v.k = "undefined" -> <<"u", "n", "d", "e", "f", "i", "n", "e", "d">>
      [] v.k = "null"      -> <<"n", "u", "l", "l">>
      [] OTHER             -> v.s

\* ------------------------------------------------------ the configuration

\* GStoreConfig: an omitted field reads as undefined.
Buckets      == {Undefined, Str(<<>>), Str(<<"b">>)}
AssetDomains == {Undefined, Str(<<>>), Str(<<"c", ".", "i", "o">>), Str(<<"c", "/">>)}
Insecures    == {Undefined, Bool(TRUE), Bool(FALSE)}
MaxAges      == {Undefined, Num(0), Num(3600), Str(<<"6", "0">>)}
Uniforms     == {Undefined, Bool(TRUE), Bool(FALSE)}
Keys         == {Undefined, Str(<<"k">>)}
ProjectIds   == {Undefined, Str(<<"p">>)}

Configs ==
    [bucket : Buckets, assetDomain : AssetDomains, insecure : Insecures,
     maxAge : MaxAges, uniformBucketLevelAccess : Uniforms,
     key : Keys, projectId : ProjectIds]

\* The configurations the operations are exercised under: the fields save,
\* exists, read and delete depend on, with the credential fields left out.
OpConfigs ==
    {c \in Configs : /\ c.bucket = Str(<<"b">>)
                     /\ c.assetDomain \in {Undefined, Str(<<"c", ".", "i", "o">>)}
                     /\ c.insecure \in {Undefined, Bool(TRUE)}
                     /\ c.maxAge \in {Undefined, Num(0), Str(<<"6", "0">>)}
                     /\ c.key = Undefined
                     /\ c.projectId = Undefined}

NoConfig ==
    [bucket |-> Undefined, assetDomain |-> Undefined, insecure |-> Undefined,
     maxAge |-> Undefined, uniformBucketLevelAccess |-> Undefined,
     key |-> Undefined, projectId |-> Undefined]

DefaultMaxAge == 2678400

\* new Error('Google Cloud Storage bucket is required')
BucketRequired ==
    Err(<<"b", "u", "c", "k", "e", "t", " ", "i", "s", " ",
          "r", "e", "q", "u", "i", "r", "e", "d">>)

GoogleDomain ==
    <<".", "s", "t", "o", "r", "a", "g", "e", ".", "g", "o", "o", "g", "l", "e",
      "a", "p", "i", "s", ".", "c", "o", "m">>

\* storageOptions: keyFilename and projectId are set only when truthy.
StorageOptions(c) ==
    [keyFilename |-> IF Truthy(c.key) THEN c.key ELSE Undefined,
     projectId   |-> IF Truthy(c.projectId) THEN c.projectId ELSE Undefined]

NewStorage(c) == [fn |-> "Storage", options |-> StorageOptions(c), name |-> Undefined]
GcsBucket(c)  == [fn |-> "bucket", options |-> StorageOptions(c), name |-> c.bucket]

\* `if (!config.bucket) throw`
RejectsBucket(c) == ~Truthy(c.bucket)

\* An asset-domain default applied with `??`, which keeps ''.
AssetDomainOfNullish(c) ==
    NullishOr(c.assetDomain, Str(TemplateString(c.bucket) \o GoogleDomain))

\* this.assetDomain = config.assetDomain || `${config.bucket}.storage.googleapis.com`
AssetDomainOf(c) == FalsyOr(c.assetDomain, Str(TemplateString(c.bucket) \o GoogleDomain))

\* this.insecure = config.insecure ?? false
InsecureOf(c) == NullishOr(c.insecure, Bool(FALSE))

\* A maxAge default applied with `||`, which also replaces 0 and ''.
MaxAgeOfFalsy(c) == FalsyOr(c.maxAge, Num(DefaultMaxAge))

\* this.maxAge = config.maxAge ?? 2678400
MaxAgeOf(c) == NullishOr(c.maxAge, Num(DefaultMaxAge))

\* this.uniformBucketLevelAccess = config.uniformBucketLevelAccess ?? false
UniformOf(c) == NullishOr(c.uniformBucketLevelAccess, Bool(FALSE))

\* A constructor that keeps the configuration without the credential path.
StoredConfigNoKey(c) == [c EXCEPT !.key = Undefined]

\* this.config = config
StoredConfig(c) == c

\* A constructor that creates the client and the handle before its check.
ConstructorCallsEager(c) == <<NewStorage(c), GcsBucket(c)>>

\* The storage-client calls of a constructor run on configuration c: none
\* when the bucket check throws, else new Storage(...) and gcs.bucket(...).
ConstructorCalls(c) ==
    IF RejectsBucket(c) THEN <<>> ELSE <<NewStorage(c), GcsBucket(c)>>

\* new GStore(c)
Construct(c) ==
    /\ ctor = "none"
    /\ arg' = c
    /\ gcsCalls' = ConstructorCalls(c)
    /\ IF RejectsBucket(c)
         THEN /\ ctor' = "threw"
              /\ thrown' = BucketRequired
              /\ UNCHANGED fields
         ELSE /\ ctor' = "ready"
              /\ thrown' = Undefined
              /\ config' = StoredConfig(c)
              /\ bucket' = c.bucket
              /\ assetDomain' = AssetDomainOf(c)
              /\ insecure' = InsecureOf(c)
              /\ maxAge' = MaxAgeOf(c)
              /\ uniformBucketLevelAccess' = UniformOf(c)
    /\ UNCHANGED <<platform, ret, mw, calls>>

\* A base URL without the trailing separator.
getBaseUrlBare ==
    (IF Truthy(insecure) THEN <<"h", "t", "t", "p">> ELSE <<"h", "t", "t", "p", "s">>)
        \o <<":", "/", "/">> \o TemplateString(assetDomain)

\* getBaseUrl(): `${protocol}://${this.assetDomain}/`
getBaseUrl ==
    (IF Truthy(insecure) THEN <<"h", "t", "t", "p">> ELSE <<"h", "t", "t", "p", "s">>)
        \o <<":", "/", "/">> \o TemplateString(assetDomain) \o <<"/">>

\* getConfig()
getConfig == config

NoRet == [fn |-> "none", url |-> <<>>, cfg |-> NoConfig]

\* A getBaseUrl that memoizes its result in the assetDomain field.
GetBaseUrlMemo ==
    /\ ctor = "ready"
    /\ ret' = [fn |-> "getBaseUrl", url |-> getBaseUrl, cfg |-> NoConfig]
    /\ assetDomain' = Str(getBaseUrl)
    /\ UNCHANGED <<platform, ctor, arg, thrown, gcsCalls, config, bucket, insecure,
                   maxAge, uniformBucketLevelAccess, mw, calls>>

\* A call of getBaseUrl().
GetBaseUrl ==
    /\ ctor = "ready"
    /\ ret' = [fn |-> "getBaseUrl", url |-> getBaseUrl, cfg |-> NoConfig]
    /\ UNCHANGED <<platform, ctor, arg, thrown, gcsCalls, fields, mw, calls>>

\* A call of getConfig().
GetConfig ==
    /\ ctor = "ready"
    /\ ret' = [fn |-> "getConfig", url |-> <<>>, cfg |-> getConfig]
    /\ UNCHANGED <<platform, ctor, arg, thrown, gcsCalls, fields, mw, calls>>

\* ---- serve()

\* The request and response objects a handler invocation is given.
Requests  == {Str(<<"q", "1">>), Str(<<"q", "2">>)}
Responses == {Str(<<"r", "1">>)}

\* mw: how often the handler ran, the argument lists of its calls of next,
\* and the last request and response as given and as left by the handler.
NoServe ==
    [invoked |-> 0, nextArgs |-> <<>>, req |-> Undefined, res |-> Undefined,
     reqAfter |-> Undefined, resAfter |-> Undefined]

\* A handler that passes the request on to next.
HandlerNextWithReq(req, res) == <<<<req>>>>

\* The calls of next one handler invocation makes: `next()`, once, no arguments.
HandlerNext(req, res) == <<<<>>>>

\* serve() and one invocation of the handler it returns, on (req, res, next).
Serve(req, res) ==
    /\ ctor = "ready"
    /\ mw.invoked < MaxServes
    /\ mw' = [invoked  |-> mw.invoked + 1,
              nextArgs |-> mw.nextArgs \o HandlerNext(req, res),
              req |-> req, res |-> res, reqAfter |-> req, resAfter |-> res]
    /\ UNCHANGED <<platform, ctor, arg, thrown, gcsCalls, fields, ret, calls>>

\* ------------------------------------------------------------------ paths

\* normalizePathForGCS: filePath.replace(/\\/g, '/')
normalizePathForGCS(filePath) ==
    [i \in 1..Len(filePath) |-> IF filePath[i] = "\\" THEN "/" ELSE filePath[i]]

\* Node's path module: the separator it writes, and the characters it reads
\* as separators ('/' everywhere, '\' on win32 only).
Sep == IF platform = "win32" THEN "\\" ELSE "/"
IsSep(ch) == ch = "/" \/ (platform = "win32" /\ ch = "\\")

\* path.normalize on a path without '.' and '..' segments: every run of
\* separators becomes one platform separator.
RECURSIVE PathNormalize(_)
PathNormalize(p) ==
    IF p = <<>> THEN <<>>
    ELSE IF IsSep(Head(p))
         THEN IF Len(p) > 1 /\ IsSep(p[2])
                THEN PathNormalize(Tail(p))
                ELSE <<Sep>> \o PathNormalize(Tail(p))
         ELSE <<Head(p)>> \o PathNormalize(Tail(p))

\* path.join(a, b): the non-empty arguments joined by the separator, normalized.
PathJoin(a, b) ==
    IF a = <<>> THEN PathNormalize(b)
    ELSE IF b = <<>> THEN PathNormalize(a)
    ELSE PathNormalize(a \o <<Sep>> \o b)

\* A path built by normalizing the parts first and joining them afterwards.
FilePathNormalizeFirst(filename, targetDir) ==
    IF Truthy(targetDir)
      THEN PathJoin(normalizePathForGCS(targetDir.s), normalizePathForGCS(filename))
      ELSE normalizePathForGCS(filename)

\* exists/delete: normalizePathForGCS(targetDir ? path.join(targetDir, filename) : filename)
FilePath(filename, targetDir) ==
    normalizePathForGCS(
        IF Truthy(targetDir) THEN PathJoin(targetDir.s, filename) ELSE filename)

\* ------------------------------------------------------ the calls' inputs

Filenames  == {<<"f">>, <<"a", "\\", "f">>, <<"a", "/", "/", "f">>}
TargetDirs == {Undefined, Str(<<>>), Str(<<"d">>), Str(<<"d", "/">>)}
ReadPaths  == {<<"f">>, <<"a", "\\", "f">>}
Images     == {[path |-> <<"/", "t", "/", "f">>, name |-> <<"f">>],
               [path |-> <<"/", "t", "/", "g">>, name |-> <<"g">>]}
NoImage    == [path |-> <<>>, name |-> <<>>]
\* What the host base's getUniqueFileName may resolve to.
UniqueNames == {<<"d", "/", "f">>, <<"d", "\\", "f">>, <<"d", "\\", "e", "\\", "f", "-", "1">>}
\* What a stream emits as data, and what the client or the host fails with.
Chunks == {<<>>, <<"x">>, <<"y">>}
Errors == {Err(<<"E", "1">>), Err(<<"E", "2">>)}

CallIds == 1..MaxCalls
\* The slots a caller that awaits every call uses.
SeqIds  == {1}

\* -------------------------------------------------- storage-client calls

NoOpts == [destination |-> <<>>, cacheControl |-> <<>>, public |-> Undefined]

ClientCall(fn, key, src, opts) == [fn |-> fn, key |-> key, src |-> src, opts |-> opts]

\* save's upload options: destination, metadata.cacheControl, and public
\* only when the bucket does not use uniform bucket-level access.
UploadOpts(targetFilename) ==
    [destination  |-> targetFilename,
     cacheControl |-> <<"p", "u", "b", "l", "i", "c", ",", " ",
                        "m", "a", "x", "-", "a", "g", "e", "=">>
                      \o TemplateString(maxAge),
     public       |-> IF ~Truthy(uniformBucketLevelAccess) THEN Bool(TRUE) ELSE Undefined]

\* ------------------------------------------------------------- the calls

\* One call's record: its arguments (image, filename, targetDir, path), its
\* locals (targetFilename, baseUrl, contents), the storage-client calls it
\* issued, and its promise (settled, value).  answer and fault record what
\* the host base or the storage client replied; events what the stream emitted.

IdleCall ==
    [op |-> "none", pc |-> "idle", image |-> NoImage, filename |-> <<>>,
     targetDir |-> Undefined, path |-> <<>>, targetFilename |-> <<>>,
     baseUrl |-> <<>>, contents |-> Null, issued |-> <<>>,
     settled |-> "none", value |-> Undefined, answer |-> Undefined,
     fault |-> "none", events |-> <<>>]

\* A slot is free before its first call and once its call has settled.
Free(id) == ctor = "ready" /\ calls[id].settled # "pending"

\* A completion callback in place of the promise: the last call of it wins.
SettleLast(c, how, v) == [c EXCEPT !.settled = how, !.value = v]

\* resolve(v) / reject(e) of a promise: the first one settles it, later ones do nothing.
Settle(c, how, v) ==
    IF c.settled = "pending" THEN [c EXCEPT !.settled = how, !.value = v] ELSE c

unchangedAdapter == UNCHANGED <<platform, ctor, arg, thrown, gcsCalls, fields, ret, mw>>

\* ---- save(image)

\* save up to its first await: getTargetDir(), then getUniqueFileName(image,
\* targetDir) is pending at the host base.
SaveStart(id, image) ==
    /\ Free(id)
    /\ calls' = [calls EXCEPT ![id] =
                    [IdleCall EXCEPT !.op = "save", !.pc = "unique",
                                     !.image = image, !.settled = "pending"]]
    /\ unchangedAdapter

\* getUniqueFileName resolved to `name`: save normalizes it, reads the base
\* URL, builds the options and issues bucket.upload(image.path, opts).
SaveUnique(id, name) ==
    /\ calls[id].op = "save" /\ calls[id].pc = "unique"
    /\ LET targetFilename == normalizePathForGCS(name)
           opts == UploadOpts(targetFilename)
       IN calls' = [calls EXCEPT ![id].pc = "upload",
                                 ![id].targetFilename = targetFilename,
                                 ![id].baseUrl = getBaseUrl,
                                 ![id].answer = Str(name),
                                 ![id].issued = Append(@,
                                     ClientCall("upload", opts.destination,
                                                calls[id].image.path, opts))]
    /\ unchangedAdapter

\* getUniqueFileName rejected with e: the await throws out of save.
SaveUniqueFail(id, e) ==
    /\ calls[id].op = "save" /\ calls[id].pc = "unique"
    /\ calls' = [calls EXCEPT ![id] =
                    [Settle(@, "rejected", e) EXCEPT !.pc = "done", !.answer = e,
                                                     !.fault = "host"]]
    /\ unchangedAdapter

\* A save that builds its URL from the name as the host base gave it.
SaveResultRaw(c) == Str(c.baseUrl \o c.answer.s)

\* What save returns once the upload is done: baseUrl + targetFilename.
SaveResult(c) == Str(c.baseUrl \o c.targetFilename)

\* bucket.upload resolved.
SaveUploaded(id) ==
    /\ calls[id].op = "save" /\ calls[id].pc = "upload"
    /\ calls' = [calls EXCEPT ![id] =
                    [Settle(@, "resolved", SaveResult(@)) EXCEPT !.pc = "done"]]
    /\ unchangedAdapter

\* bucket.upload rejected with e.
SaveUploadFail(id, e) ==
    /\ calls[id].op = "save" /\ calls[id].pc = "upload"
    /\ calls' = [calls EXCEPT ![id] =
                    [Settle(@, "rejected", e) EXCEPT !.pc = "done", !.answer = e,
                                                     !.fault = "client"]]
    /\ unchangedAdapter

\* ---- exists(filename, targetDir)

\* exists up to its await: the path is built and file(filePath).exists() issued.
ExistsStart(id, filename, targetDir) ==
    /\ Free(id)
    /\ calls' = [calls EXCEPT ![id] =
                    [IdleCall EXCEPT !.op = "exists", !.pc = "query",
                                     !.filename = filename, !.targetDir = targetDir,
                                     !.settled = "pending",
                                     !.issued = <<ClientCall("file.exists",
                                         FilePath(filename, targetDir), <<>>, NoOpts)>>]]
    /\ unchangedAdapter

\* `return !!response`: an array is always truthy.
ExistsResultTruthy(response) == Bool(TRUE)

\* `const [exists] = response; return exists`
ExistsResult(response) == response[1]

\* file.exists() resolved to the one-element array response.
ExistsReply(id, response) ==
    /\ calls[id].op = "exists" /\ calls[id].pc = "query"
    /\ calls' = [calls EXCEPT ![id] =
                    [Settle(@, "resolved", ExistsResult(response))
                        EXCEPT !.pc = "done", !.answer = response[1]]]
    /\ unchangedAdapter

\* An exists that catches the failure and answers false.
ExistsFailSwallowed(id, e) ==
    /\ calls[id].op = "exists" /\ calls[id].pc = "query"
    /\ calls' = [calls EXCEPT ![id] =
                    [Settle(@, "resolved", Bool(FALSE))
                        EXCEPT !.pc = "done", !.answer = e, !.fault = "client"]]
    /\ unchangedAdapter

\* file.exists() rejected with e.
ExistsFail(id, e) ==
    /\ calls[id].op = "exists" /\ calls[id].pc = "query"
    /\ calls' = [calls EXCEPT ![id] =
                    [Settle(@, "rejected", e) EXCEPT !.pc = "done", !.answer = e,
                                                     !.fault = "client"]]
    /\ unchangedAdapter

\* ---- delete(filename, targetDir)

\* delete up to its await: the path is built and file(filePath).delete() issued.
DeleteStart(id, filename, targetDir) ==
    /\ Free(id)
    /\ calls' = [calls EXCEPT ![id] =
                    [IdleCall EXCEPT !.op = "delete", !.pc = "deleting",
                                     !.filename = filename, !.targetDir = targetDir,
                                     !.settled = "pending",
                                     !.issued = <<ClientCall("file.delete",
                                         FilePath(filename, targetDir), <<>>, NoOpts)>>]]
    /\ unchangedAdapter

\* `return true`
DeleteResult == Bool(TRUE)

\* What file.delete() resolves with: the API's response object.
ApiResponse == [k |-> "object", s |-> <<>>, n |-> 0, b |-> FALSE]

\* file.delete() resolved.
DeleteDone(id) ==
    /\ calls[id].op = "delete" /\ calls[id].pc = "deleting"
    /\ calls' = [calls EXCEPT ![id] =
                    [Settle(@, "resolved", DeleteResult)
                        EXCEPT !.pc = "done", !.answer = ApiResponse]]
    /\ unchangedAdapter

\* A delete that catches the failure and answers false.
DeleteFailFalse(id, e) ==
    /\ calls[id].op = "delete" /\ calls[id].pc = "deleting"
    /\ calls' = [calls EXCEPT ![id] =
                    [Settle(@, "resolved", Bool(FALSE))
                        EXCEPT !.pc = "done", !.answer = e, !.fault = "client"]]
    /\ unchangedAdapter

\* file.delete() rejected with e.
DeleteFail(id, e) ==
    /\ calls[id].op = "delete" /\ calls[id].pc = "deleting"
    /\ calls' = [calls EXCEPT ![id] =
                    [Settle(@, "rejected", e) EXCEPT !.pc = "done", !.answer = e,
                                                     !.fault = "client"]]
    /\ unchangedAdapter

\* ---- read(options)

\* A read that normalizes its path as exists and delete do.
ReadKeyNormalized(path) == normalizePathForGCS(path)

\* The object key read asks the bucket for: this.bucket.file(options.path).
ReadKey(path) == path

\* read: the stream is created on options.path as given, contents is null,
\* and the three listeners are attached.
ReadStart(id, path) ==
    /\ Free(id)
    /\ calls' = [calls EXCEPT ![id] =
                    [IdleCall EXCEPT !.op = "read", !.pc = "stream",
                                     !.path = path, !.settled = "pending",
                                     !.issued = <<ClientCall("file.createReadStream",
                                                             ReadKey(path), <<>>, NoOpts)>>]]
    /\ unchangedAdapter

\* The events a read stream emits.
DataEv(x)  == [ev |-> "data", chunk |-> x, err |-> Undefined]
EndEv      == [ev |-> "end", chunk |-> <<>>, err |-> Undefined]
ErrorEv(e) == [ev |-> "error", chunk |-> <<>>, err |-> e]

\* A 'data' listener that prepends the chunk.
OnDataPrepend(contents, data) ==
    IF ~Truthy(contents) THEN Buf(data) ELSE Buf(data \o contents.s)

\* The 'data' listener's update of contents.
OnData(contents, data) ==
    IF ~Truthy(contents) THEN Buf(data) ELSE Buf(contents.s \o data)

\* The 'end' listener's argument to resolve: contents || Buffer.alloc(0).
OnEnd(contents) == FalsyOr(contents, Buf(<<>>))

\* The stream may emit as long as the listeners are attached, also after the
\* promise has settled.
Streaming(id) ==
    /\ calls[id].op = "read" /\ calls[id].pc = "stream"
    /\ Len(calls[id].events) < MaxEvents

\* A read that keeps contents in a field of the adapter, which every read
\* in flight then shares.
ReadDataShared(id, data) ==
    /\ Streaming(id)
    /\ calls' = [i \in CallIds |->
                    IF i = id
                      THEN [calls[i] EXCEPT !.contents = OnData(@, data),
                                            !.events = Append(@, DataEv(data))]
                    ELSE IF calls[i].op = "read"
                      THEN [calls[i] EXCEPT !.contents = OnData(@, data)]
                    ELSE calls[i]]
    /\ unchangedAdapter

\* The 'data' listener.
ReadData(id, data) ==
    /\ Streaming(id)
    /\ calls' = [calls EXCEPT ![id].contents = OnData(@, data),
                              ![id].events = Append(@, DataEv(data))]
    /\ unchangedAdapter

\* The 'end' listener: resolve(contents || Buffer.alloc(0)).
ReadEnd(id) ==
    /\ Streaming(id)
    /\ calls' = [calls EXCEPT ![id] =
                    [Settle(@, "resolved", OnEnd(@.contents))
                        EXCEPT !.events = Append(@, EndEv)]]
    /\ unchangedAdapter

\* A read with no 'error' listener: the event passes unobserved.
ReadErrorUnhandled(id, e) ==
    /\ Streaming(id)
    /\ calls' = [calls EXCEPT ![id].events = Append(@, ErrorEv(e))]
    /\ unchangedAdapter

\* The 'error' listener: reject(err).
ReadError(id, e) ==
    /\ Streaming(id)
    /\ calls' = [calls EXCEPT ![id] =
                    [Settle(@, "rejected", e)
                        EXCEPT !.events = Append(@, ErrorEv(e))]]
    /\ unchangedAdapter

\* ------------------------------------------------------ specifications

Init ==
    /\ platform \in {"posix", "win32"}
    /\ ctor = "none"
    /\ arg = NoConfig
    /\ thrown = Undefined
    /\ gcsCalls = <<>>
    /\ config = NoConfig
    /\ bucket = Undefined
    /\ assetDomain = Undefined
    /\ insecure = Undefined
    /\ maxAge = Undefined
    /\ uniformBucketLevelAccess = Undefined
    /\ ret = NoRet
    /\ mw = NoServe
    /\ calls = [id \in CallIds |-> IdleCall]

\* The adapter under a caller that awaits each call before the next.
Next ==
    \/ \E c \in OpConfigs : Construct(c)
    \/ \E id \in SeqIds, image \in Images : SaveStart(id, image)
    \/ \E id \in SeqIds, name \in UniqueNames : SaveUnique(id, name)
    \/ \E id \in SeqIds, e \in Errors : SaveUniqueFail(id, e)
    \/ \E id \in SeqIds : SaveUploaded(id)
    \/ \E id \in SeqIds, e \in Errors : SaveUploadFail(id, e)
    \/ \E id \in SeqIds, f \in Filenames, d \in TargetDirs : ExistsStart(id, f, d)
    \/ \E id \in SeqIds, b \in BOOLEAN : ExistsReply(id, <<Bool(b)>>)
    \/ \E id \in SeqIds, e \in Errors : ExistsFail(id, e)
    \/ \E id \in SeqIds, f \in Filenames, d \in TargetDirs : DeleteStart(id, f, d)
    \/ \E id \in SeqIds : DeleteDone(id)
    \/ \E id \in SeqIds, e \in Errors : DeleteFail(id, e)
    \/ \E id \in SeqIds, p \in ReadPaths : ReadStart(id, p)
    \/ \E id \in SeqIds, data \in Chunks : ReadData(id, data)
    \/ \E id \in SeqIds : ReadEnd(id)
    \/ \E id \in SeqIds, e \in Errors : ReadError(id, e)

Spec == Init /\ [][Next]_vars

\* Construction on every configuration, and the two accessors.
NextCtor ==
    \/ \E c \in Configs : Construct(c)
    \/ GetBaseUrl
    \/ GetConfig

SpecCtor == Init /\ [][NextCtor]_vars

\* The handler of serve() beside calls of exists in flight.
NextServe ==
    \/ \E c \in OpConfigs : Construct(c)
    \/ \E req \in Requests, res \in Responses : Serve(req, res)
    \/ \E id \in SeqIds, f \in Filenames, d \in TargetDirs : ExistsStart(id, f, d)
    \/ \E id \in SeqIds, b \in BOOLEAN : ExistsReply(id, <<Bool(b)>>)
    \/ \E id \in SeqIds, e \in Errors : ExistsFail(id, e)

SpecServe == Init /\ [][NextServe]_vars

\* The configuration and the inputs of the concurrent calls: one of each,
\* and a chunk per slot, so that one call's data is told from another's.
ConcConfigs == {c \in OpConfigs : c = [NoConfig EXCEPT !.bucket = Str(<<"b">>)]}
ChunkOf(id) == IF id = 1 THEN <<"x">> ELSE IF id = 2 THEN <<"y">> ELSE <<"z">>
ConcError   == Err(<<"E", "1">>)
ConcImage   == [path |-> <<"/", "t", "/", "f">>, name |-> <<"f">>]
ConcName    == <<"d", "\\", "f">>
MayEmit(id) == Len(calls[id].events) < ConcEvents

\* Calls issued concurrently: any slot may start while others are in flight.
NextConcurrent ==
    \/ \E c \in ConcConfigs : Construct(c)
    \/ \E id \in CallIds : SaveStart(id, ConcImage)
    \/ \E id \in CallIds : SaveUnique(id, ConcName)
    \/ \E id \in CallIds : SaveUniqueFail(id, ConcError)
    \/ \E id \in CallIds : SaveUploaded(id)
    \/ \E id \in CallIds : SaveUploadFail(id, ConcError)
    \/ \E id \in CallIds : ExistsStart(id, <<"f">>, Undefined)
    \/ \E id \in CallIds, b \in BOOLEAN : ExistsReply(id, <<Bool(b)>>)
    \/ \E id \in CallIds : ExistsFail(id, ConcError)
    \/ \E id \in CallIds : DeleteStart(id, <<"f">>, Undefined)
    \/ \E id \in CallIds : DeleteDone(id)
    \/ \E id \in CallIds : DeleteFail(id, ConcError)
    \/ \E id \in CallIds : ReadStart(id, <<"f">>)
    \/ \E id \in CallIds : MayEmit(id) /\ ReadData(id, ChunkOf(id))
    \/ \E id \in CallIds : MayEmit(id) /\ ReadEnd(id)
    \/ \E id \in CallIds : MayEmit(id) /\ ReadError(id, ConcError)

SpecConcurrent == Init /\ [][NextConcurrent]_vars

\* The configurations of the runs that mix every operation.
FrameConfigs ==
    {c \in OpConfigs : /\ c.assetDomain = Undefined
                       /\ c.maxAge \in {Undefined, Num(0)}
                       /\ c.uniformBucketLevelAccess \in {Undefined, Bool(TRUE)}}

\* Every operation of the adapter, in any order, each call awaited.
NextFrame ==
    \/ \E c \in FrameConfigs : Construct(c)
    \/ GetBaseUrl
    \/ GetConfig
    \/ \E res \in Responses : Serve(Str(<<"q", "1">>), res)
    \/ \E id \in SeqIds, image \in Images : SaveStart(id, image)
    \/ \E id \in SeqIds, name \in UniqueNames : SaveUnique(id, name)
    \/ \E id \in SeqIds, e \in Errors : SaveUniqueFail(id, e)
    \/ \E id \in SeqIds : SaveUploaded(id)
    \/ \E id \in SeqIds, e \in Errors : SaveUploadFail(id, e)
    \/ \E id \in SeqIds, f \in Filenames, d \in TargetDirs : ExistsStart(id, f, d)
    \/ \E id \in SeqIds, b \in BOOLEAN : ExistsReply(id, <<Bool(b)>>)
    \/ \E id \in SeqIds, e \in Errors : ExistsFail(id, e)
    \/ \E id \in SeqIds, f \in Filenames, d \in TargetDirs : DeleteStart(id, f, d)
    \/ \E id \in SeqIds : DeleteDone(id)
    \/ \E id \in SeqIds, e \in Errors : DeleteFail(id, e)
    \/ \E id \in SeqIds, p \in ReadPaths : ReadStart(id, p)
    \/ \E id \in SeqIds, data \in Chunks : MayEmit(id) /\ ReadData(id, data)
    \/ \E id \in SeqIds : MayEmit(id) /\ ReadEnd(id)
    \/ \E id \in SeqIds, e \in Errors : MayEmit(id) /\ ReadError(id, e)

SpecFrame == Init /\ [][NextFrame]_vars

\* ============================================================ properties

\* The bytes of the data events that lead a stream's events, up to its first
\* 'end' or 'error', in emission order.
RECURSIVE Emitted(_)
Emitted(evs) ==
    IF evs = <<>> \/ Head(evs).ev # "data" THEN <<>>
    ELSE Head(evs).chunk \o Emitted(Tail(evs))

\* The first 'end' or 'error' among a stream's events, or 0.
FirstTerminal(evs) ==
    LET T == {i \in 1..Len(evs) : evs[i].ev # "data"}
    IN IF T = {} THEN 0 ELSE CHOOSE i \in T : \A j \in T : i <= j

Has(evs, kind) == \E i \in 1..Len(evs) : evs[i].ev = kind

\* C1: a read whose stream has emitted chunks c1..cn and then 'end', with no
\* 'error', is resolved with the buffer c1 ++ ... ++ cn (a zero-length buffer
\* for n = 0, empty chunks adding nothing); before 'end' it is still pending.
C1_ReadConcatenates ==
    \A id \in CallIds :
        LET c == calls[id] IN
        (c.op = "read" /\ ~Has(c.events, "error")) =>
            IF Has(c.events, "end")
            THEN c.settled = "resolved" /\ c.value = Buf(Emitted(c.events))
            ELSE c.settled = "pending"

\* C1 witness: two different chunks, then 'end'.
C1_Witness ==
    \E id \in CallIds :
        /\ calls[id].events = <<DataEv(<<"x">>), DataEv(<<"y">>), EndEv>>
        /\ calls[id].settled = "resolved"
        /\ calls[id].value = Buf(<<"x", "y">>)

\* C2: a read whose stream's first terminal event is 'error' with e is
\* rejected with exactly e, whatever data came before or anything after; the
\* accumulated chunks are not delivered.
C2_ReadRejects ==
    \A id \in CallIds :
        LET c == calls[id]
            t == FirstTerminal(c.events)
        IN (c.op = "read" /\ t > 0 /\ c.events[t].ev = "error") =>
               c.settled = "rejected" /\ c.value = c.events[t].err

\* C2 witness: a chunk, then an error, then 'end'.
C2_Witness ==
    \E id \in CallIds :
        /\ calls[id].events = <<DataEv(<<"x">>), ErrorEv(Err(<<"E", "1">>)), EndEv>>
        /\ calls[id].settled = "rejected"
        /\ calls[id].value = Err(<<"E", "1">>)

Last(x) == x[Len(x)]
StartsWith(x, pre) == Len(x) >= Len(pre) /\ SubSeq(x, 1, Len(pre)) = pre

\* out is x with every backslash replaced by a forward slash.
Slashed(x, out) ==
    /\ Len(out) = Len(x)
    /\ \A i \in 1..Len(x) : out[i] = (IF x[i] = "\\" THEN "/" ELSE x[i])

CacheControlPrefix ==
    <<"p", "u", "b", "l", "i", "c", ",", " ", "m", "a", "x", "-", "a", "g", "e", "=">>

\* The max-age text of a configuration: the configured value as written, or
\* 2678400 when omitted.
MaxAgeText(c) ==
    CASE c.maxAge = Undefined -> <<"2", "6", "7", "8", "4", "0", "0">>
      [] c.maxAge = Num(0)    -> <<"0">>
      [] c.maxAge = Num(3600) -> <<"3", "6", "0", "0">>
      [] OTHER                -> c.maxAge.s

\* The uploads a call has issued.
Uploads(c) == {i \in 1..Len(c.issued) : c.issued[i].fn = "upload"}

\* C3: every upload of save carries cacheControl `public, max-age={maxAge}`
\* (the configured value, 0 and numeric strings included, or 2678400), and
\* public: true exactly when uniformBucketLevelAccess is not configured true.
C3_UploadOptions ==
    \A id \in CallIds : \A i \in Uploads(calls[id]) :
        LET o == calls[id].issued[i].opts IN
        /\ o.cacheControl = CacheControlPrefix \o MaxAgeText(arg)
        /\ o.public = (IF arg.uniformBucketLevelAccess = Bool(TRUE)
                         THEN Undefined ELSE Bool(TRUE))

\* C3 witness: an upload under maxAge 0 and uniform bucket-level access.
C3_Witness ==
    \E id \in CallIds : \E i \in Uploads(calls[id]) :
        /\ arg.maxAge = Num(0)
        /\ arg.uniformBucketLevelAccess = Bool(TRUE)
        /\ calls[id].issued[i].opts.cacheControl = CacheControlPrefix \o <<"0">>
        /\ calls[id].issued[i].opts.public = Undefined

\* C4: a resolved save returns the base URL followed by the destination key
\* of its one upload, the key being the unique name with every backslash
\* replaced; the URL begins with the configured protocol; and a save whose
\* upload has not completed is not resolved.
C4_SaveUrl ==
    \A id \in CallIds :
        LET c == calls[id] IN
        c.op = "save" =>
            /\ c.pc \in {"unique", "upload"} => c.settled = "pending"
            /\ c.settled = "resolved" =>
                /\ c.pc = "done"
                /\ Len(c.issued) = 1 /\ c.issued[1].fn = "upload"
                /\ c.issued[1].src = c.image.path
                /\ Slashed(c.answer.s, c.issued[1].key)
                /\ c.issued[1].opts.destination = c.issued[1].key
                /\ c.value = Str(getBaseUrl \o c.issued[1].key)
                /\ StartsWith(c.value.s,
                       IF arg.insecure = Bool(TRUE)
                         THEN <<"h", "t", "t", "p", ":", "/", "/">>
                         ELSE <<"h", "t", "t", "p", "s", ":", "/", "/">>)

\* C4 witness: a save of a backslash-separated unique name, resolved, over http.
C4_Witness ==
    \E id \in CallIds :
        /\ calls[id].op = "save" /\ calls[id].settled = "resolved"
        /\ arg.insecure = Bool(TRUE)
        /\ calls[id].answer = Str(<<"d", "\\", "e", "\\", "f", "-", "1">>)
        /\ calls[id].value =
             Str(<<"h", "t", "t", "p", ":", "/", "/", "c", ".", "i", "o", "/",
                   "d", "/", "e", "/", "f", "-", "1">>)

\* C5: when the client call of save, exists or delete fails with e, the
\* operation is rejected with e itself after exactly one client call; when
\* save's unique-name resolution fails with e, save is rejected with e and no
\* client call was issued.
C5_ErrorsPropagate ==
    \A id \in CallIds :
        LET c == calls[id] IN
        c.op \in {"save", "exists", "delete"} =>
            /\ c.fault = "client" =>
                  /\ c.settled = "rejected" /\ c.value = c.answer
                  /\ c.answer \in Errors
                  /\ Len(c.issued) = 1
            /\ c.fault = "host" =>
                  /\ c.settled = "rejected" /\ c.value = c.answer
                  /\ c.answer \in Errors
                  /\ c.issued = <<>>

\* C5 witness: a save whose upload failed with E2.
C5_Witness ==
    \E id \in CallIds :
        /\ calls[id].op = "save" /\ calls[id].fault = "client"
        /\ calls[id].settled = "rejected"
        /\ calls[id].value = Err(<<"E", "2">>)
        /\ Len(calls[id].issued) = 1

\* C10: a resolved exists holds a boolean, the client's answer unchanged; an
\* exists whose query failed is rejected, never resolved.
C10_ExistsBoolean ==
    \A id \in CallIds :
        LET c == calls[id] IN
        c.op = "exists" =>
            /\ c.settled = "resolved" =>
                  /\ c.value \in {Bool(TRUE), Bool(FALSE)}
                  /\ c.value = c.answer
                  /\ c.fault = "none"
            /\ c.fault # "none" => c.settled = "rejected"
            /\ c.pc = "query" => c.settled = "pending"

\* C10 witness: exists with a targetDir, answered false.
C10_Witness ==
    \E id \in CallIds :
        /\ calls[id].op = "exists" /\ calls[id].settled = "resolved"
        /\ calls[id].targetDir = Str(<<"d">>)
        /\ calls[id].answer = Bool(FALSE)
        /\ calls[id].value = Bool(FALSE)

Https == <<"h", "t", "t", "p", "s">>
Http  == <<"h", "t", "t", "p">>

\* The protocol a configuration asks for: http exactly when insecure is true.
ProtocolOf(c) == IF c.insecure = Bool(TRUE) THEN Http ELSE Https

BucketDomain(c) == c.bucket.s \o GoogleDomain

\* C6: construction on a missing or empty bucket throws the configuration
\* error, with no storage client and no bucket handle created, and leaves
\* no adapter: no field is set and no accessor has answered.
C6_BucketRequired ==
    (ctor # "none" /\ arg.bucket \in {Undefined, Str(<<>>)}) =>
        /\ ctor = "threw"
        /\ thrown = BucketRequired
        /\ gcsCalls = <<>>
        /\ bucket = Undefined /\ config = NoConfig
        /\ ret = NoRet

\* C6 witness: construction on an empty bucket, with a key supplied, threw.
C6_Witness ==
    /\ ctor = "threw"
    /\ arg.bucket = Str(<<>>)
    /\ arg.key = Str(<<"k">>)
    /\ thrown = BucketRequired

\* C7 as stated: the domain of the base URL is the custom asset domain
\* whenever one is supplied.
C7_Original ==
    ret.fn = "getBaseUrl" =>
        ret.url = ProtocolOf(arg) \o <<":", "/", "/">>
                    \o (IF arg.assetDomain # Undefined
                          THEN arg.assetDomain.s ELSE BucketDomain(arg))
                    \o <<"/">>

\* C7 amended: getBaseUrl() is `{protocol}://{domain}/`, protocol http
\* exactly when insecure is true, and domain the custom asset domain if one
\* is supplied and non-empty, otherwise `{bucket}.storage.googleapis.com`.
C7_BaseUrl ==
    ret.fn = "getBaseUrl" =>
        ret.url = ProtocolOf(arg) \o <<":", "/", "/">>
                    \o (IF arg.assetDomain \notin {Undefined, Str(<<>>)}
                          THEN arg.assetDomain.s ELSE BucketDomain(arg))
                    \o <<"/">>

\* C7 witness: an empty asset domain, insecure, answered with the bucket's domain.
C7_Witness ==
    /\ ret.fn = "getBaseUrl"
    /\ arg.assetDomain = Str(<<>>)
    /\ arg.insecure = Bool(TRUE)
    /\ ret.url = <<"h", "t", "t", "p", ":", "/", "/", "b">> \o GoogleDomain \o <<"/">>

\* C8 as stated: the base URL ends with `/` and the character before it is
\* not `/`, for every accepted configuration.
C8_Original ==
    ret.fn = "getBaseUrl" =>
        /\ Last(ret.url) = "/"
        /\ ret.url[Len(ret.url) - 1] # "/"

\* C8 amended: the base URL ends with `/`, and the character before it is
\* `/` only when the custom asset domain itself ends with `/`.
C8_TrailingSeparator ==
    ret.fn = "getBaseUrl" =>
        /\ Last(ret.url) = "/"
        /\ ret.url[Len(ret.url) - 1] = "/" <=>
              (arg.assetDomain.s # <<>> /\ Last(arg.assetDomain.s) = "/")

\* C8 witness: a base URL over a custom domain, with one trailing separator.
C8_Witness ==
    /\ ret.fn = "getBaseUrl"
    /\ arg.assetDomain = Str(<<"c", ".", "i", "o">>)
    /\ ret.url = Https \o <<":", "/", "/", "c", ".", "i", "o", "/">>

ConfigFields ==
    {"bucket", "key", "projectId", "assetDomain", "insecure", "maxAge",
     "uniformBucketLevelAccess"}

\* C9: getConfig() returns every supplied field as it was passed, and an
\* omitted insecure, maxAge or uniformBucketLevelAccess takes its default
\* (false, 2678400, false) in the adapter.
C9_ConfigPreserved ==
    /\ ret.fn = "getConfig" =>
          \A f \in ConfigFields : arg[f] # Undefined => ret.cfg[f] = arg[f]
    /\ ctor = "ready" =>
          /\ arg.insecure = Undefined => insecure = Bool(FALSE)
          /\ arg.maxAge = Undefined => maxAge = Num(2678400)
          /\ arg.uniformBucketLevelAccess = Undefined =>
                uniformBucketLevelAccess = Bool(FALSE)

\* C9 witness: a configuration with a key and maxAge 0 and the flags
\* omitted, read back.
C9_Witness ==
    /\ ret.fn = "getConfig"
    /\ arg.key = Str(<<"k">>) /\ ret.cfg.key = Str(<<"k">>)
    /\ arg.maxAge = Num(0) /\ ret.cfg.maxAge = Num(0)
    /\ arg.insecure = Undefined /\ insecure = Bool(FALSE)
    /\ arg.uniformBucketLevelAccess = Undefined
    /\ uniformBucketLevelAccess = Bool(FALSE)

\* C11: a delete is resolved exactly when the client's delete succeeded, and
\* then with true; it is rejected with the client's error otherwise, pending
\* while the client's delete is outstanding, and never holds false.
C11_DeleteTrue ==
    \A id \in CallIds :
        LET c == calls[id] IN
        c.op = "delete" =>
            /\ c.value # Bool(FALSE)
            /\ c.pc = "deleting" => c.settled = "pending"
            /\ c.settled = "resolved" <=> (c.pc = "done" /\ c.answer = ApiResponse)
            /\ c.settled = "resolved" => c.value = Bool(TRUE)
            /\ c.fault # "none" => (c.settled = "rejected" /\ c.value = c.answer)

\* C11 witness: delete with a targetDir, the client's delete done.
C11_Witness ==
    \E id \in CallIds :
        /\ calls[id].op = "delete" /\ calls[id].targetDir = Str(<<"d">>)
        /\ calls[id].answer = ApiResponse
        /\ calls[id].settled = "resolved" /\ calls[id].value = Bool(TRUE)

NoBackslash(x) == \A i \in 1..Len(x) : x[i] # "\\"

\* The path a call's key is built from, before normalization: save's unique
\* name, and for exists and delete the joined path when `joined`, else the
\* filename.
KeySource(c, joined) ==
    IF c.op = "save" THEN c.answer.s
    ELSE IF joined THEN PathJoin(c.targetDir.s, c.filename) ELSE c.filename

\* The calls that have sent an object path built by save, exists or delete.
SentPath(c) ==
    /\ c.op \in {"save", "exists", "delete"}
    /\ c.issued # <<>>
    /\ c.op = "save" => c.answer.k = "string"

\* C12 as stated: exists and delete send the joined path whenever targetDir
\* is given.
C12_Original ==
    \A id \in CallIds :
        LET c == calls[id] IN
        SentPath(c) =>
            \A i \in 1..Len(c.issued) :
                /\ NoBackslash(c.issued[i].key)
                /\ Slashed(KeySource(c, c.targetDir # Undefined), c.issued[i].key)

\* C12 amended: the object path save, exists and delete send has no
\* backslash; it is the unique name (save), or join(targetDir, filename) when
\* targetDir is given and non-empty and the filename alone otherwise (exists,
\* delete), with every backslash replaced after the path has been built.
C12_NoBackslash ==
    \A id \in CallIds :
        LET c == calls[id] IN
        SentPath(c) =>
            \A i \in 1..Len(c.issued) :
                /\ NoBackslash(c.issued[i].key)
                /\ Slashed(KeySource(c, c.targetDir \notin {Undefined, Str(<<>>)}),
                           c.issued[i].key)

\* C12 witness: on win32, exists of a backslash filename under a targetDir
\* with a trailing slash sends d/a/f.
C12_Witness ==
    \E id \in CallIds :
        /\ platform = "win32"
        /\ calls[id].op = "exists"
        /\ calls[id].filename = <<"a", "\\", "f">>
        /\ calls[id].targetDir = Str(<<"d", "/">>)
        /\ calls[id].issued[1].key = <<"d", "/", "a", "/", "f">>

\* C13: every invocation of the handler has called next exactly once, with
\* no arguments, and left the request and the response as given; and a step
\* of the handler issues no storage-client call and changes neither the
\* adapter nor any call.
C13_ServeCallsNext ==
    /\ [](/\ Len(mw.nextArgs) = mw.invoked
          /\ \A i \in 1..Len(mw.nextArgs) : mw.nextArgs[i] = <<>>
          /\ mw.reqAfter = mw.req /\ mw.resAfter = mw.res)
    /\ [][mw' # mw =>
            /\ mw'.invoked = mw.invoked + 1
            /\ Len(mw'.nextArgs) = Len(mw.nextArgs) + 1
            /\ UNCHANGED <<fields, gcsCalls, calls, ctor, arg, ret>>]_vars

\* C13 witness: the handler ran twice, once while an exists was in flight.
C13_Witness ==
    /\ mw.invoked = 2
    /\ mw.nextArgs = <<<<>>, <<>>>>
    /\ mw.req = Str(<<"q", "2">>)
    /\ \E id \in CallIds : calls[id].op = "exists" /\ calls[id].settled = "pending"

\* What a call's own inputs and replies make of it: a read follows its own
\* stream's first terminal event, and save, exists and delete their own reply.
OwnOutcome(c) ==
    LET t == FirstTerminal(c.events) IN
    /\ c.op = "read" =>
          /\ t = 0 => c.settled = "pending"
          /\ (t > 0 /\ c.events[t].ev = "end") =>
                (c.settled = "resolved" /\ c.value = Buf(Emitted(c.events)))
          /\ (t > 0 /\ c.events[t].ev = "error") =>
                (c.settled = "rejected" /\ c.value = c.events[t].err)
    /\ (c.op = "exists" /\ c.settled = "resolved") => c.value = c.answer
    /\ (c.op = "delete" /\ c.settled = "resolved") => c.value = Bool(TRUE)
    /\ (c.op = "save" /\ c.settled = "resolved") =>
          (Slashed(c.answer.s, c.issued[1].key)
             /\ c.value = Str(getBaseUrl \o c.issued[1].key))
    /\ c.fault # "none" => (c.settled = "rejected" /\ c.value = c.answer)
    /\ (c.op # "read" /\ c.pc # "done") => c.settled \in {"none", "pending"}

\* C14: with calls in flight at once, under every interleaving, each call
\* settles by its own stream or reply only, and a step of one call leaves
\* every other call as it was.
C14_Independent ==
    /\ [](\A id \in CallIds : OwnOutcome(calls[id]))
    /\ [][\A i \in CallIds, j \in CallIds :
            (i # j /\ calls'[i] # calls[i]) => calls'[j] = calls[j]]_vars

\* C14 witness: two reads in flight at once; the first has resolved with its
\* own chunk while the second, holding its own chunk, is still pending.
C14_Witness ==
    /\ calls[1].events = <<DataEv(<<"x">>), EndEv>>
    /\ calls[1].settled = "resolved" /\ calls[1].value = Buf(<<"x">>)
    /\ calls[2].events = <<DataEv(<<"y">>)>>
    /\ calls[2].settled = "pending" /\ calls[2].contents = Buf(<<"y">>)

\* The base URL of the adapter constructed on configuration c.
BaseUrlOf(c) ==
    ProtocolOf(c) \o <<":", "/", "/">>
        \o (IF c.assetDomain \notin {Undefined, Str(<<>>)}
              THEN c.assetDomain.s ELSE BucketDomain(c))
        \o <<"/">>

\* C15: once constructed, no step of any operation, successful or failed,
\* changes a field of the adapter (the bucket handle included) or the
\* client calls of its construction; getBaseUrl() keeps returning the base
\* URL of the configuration it was constructed on; and every upload uses
\* that configuration's maxAge and uniform-access setting.
C15_AdapterUnchanged ==
    /\ [][ctor = "ready" => UNCHANGED <<fields, ctor, arg, gcsCalls>>]_vars
    /\ [](ret.fn = "getBaseUrl" => ret.url = BaseUrlOf(arg))
    /\ [](ctor = "ready" => getBaseUrl = BaseUrlOf(arg))
    /\ [](\A id \in CallIds : \A i \in Uploads(calls[id]) :
            /\ calls[id].issued[i].opts.cacheControl
                 = CacheControlPrefix \o MaxAgeText(arg)
            /\ calls[id].issued[i].opts.public
                 = (IF arg.uniformBucketLevelAccess = Bool(TRUE)
                      THEN Undefined ELSE Bool(TRUE)))

\* C15 witness: after getBaseUrl(), the handler and a failed save, an
\* adapter constructed with maxAge 0 still holds 0 and its bucket.
C15_Witness ==
    /\ ret.fn = "getBaseUrl" /\ ret.url = Http \o <<":", "/", "/", "b">> \o GoogleDomain \o <<"/">>
    /\ mw.invoked = 1
    /\ \E id \in CallIds :
          calls[id].op = "save" /\ calls[id].fault = "client"
    /\ arg.maxAge = Num(0) /\ maxAge = Num(0)
    /\ bucket = Str(<<"b">>)

\* C16: a read is pending until its stream's first 'end' or 'error', its
\* outcome is the one that event gives, and no later 'data', 'end' or 'error'
\* of the same stream changes a settled read's state or value.
C16_SettlesOnce ==
    /\ [](\A id \in CallIds :
            LET c == calls[id]
                t == FirstTerminal(c.events)
            IN c.op = "read" =>
                 CASE t = 0 -> c.settled = "pending"
                   [] t > 0 /\ c.events[t].ev = "end" ->
                        c.settled = "resolved" /\ c.value = Buf(Emitted(c.events))
                   [] OTHER ->
                        c.settled = "rejected" /\ c.value = c.events[t].err)
    /\ [][\A id \in CallIds :
            (/\ calls[id].op = "read" /\ calls'[id].op = "read"
             /\ calls[id].settled \in {"resolved", "rejected"}
             /\ calls'[id].events # <<>>)
            => (/\ calls'[id].settled = calls[id].settled
                /\ calls'[id].value = calls[id].value)]_vars

\* C16 witness: a read resolved at 'end' that then saw an 'error', and is
\* still resolved with its chunk.
C16_Witness ==
    \E id \in CallIds :
        /\ calls[id].events = <<DataEv(<<"x">>), EndEv, ErrorEv(Err(<<"E", "2">>))>>
        /\ calls[id].settled = "resolved"
        /\ calls[id].value = Buf(<<"x">>)

====
